---- MODULE Spec2Model ----
(***************************************************************************)
(* A model of the RFD content layer (rfd-processor/src/content/mod.rs):    *)
(* the RenderableRfd wrapper, its per-render workspace, image staging and  *)
(* the to_pdf orchestration; and of the API key round trip                 *)
(* (rfd-api/src/authn/key.rs).                                             *)
(*                                                                         *)
(* Strings are sequences of one-character strings, so that str::replace    *)
(* and str::trim_start_matches are computed as the code computes them.     *)
(***************************************************************************)
EXTENDS Integers, Sequences, FiniteSets, TLC

VARIABLES
    doc,        \* slot -> the RenderableRfd held in it (content, render_id)
    built,      \* slot -> what the instance was constructed from (history)
    updated,    \* slot -> an update_* call happened since construction (history)
    inner,      \* slot -> what into_inner_content returned, once consumed
    nextId,     \* the next value Uuid::new_v4 hands out
    call,       \* slot -> the to_pdf call running (or last run) on the instance
    fsDirs,     \* the workspace directories that exist under <tmp>/rfd-render
    fsFiles,    \* the files that exist inside the workspaces
    repoImages, \* the images stored at the location the client lists
    strip,      \* the destination-path computation on its own inputs
    ak          \* the API key round trip

vars == <<doc, built, updated, inner, nextId, call, fsDirs, fsFiles, repoImages, strip, ak>>

renderVars == <<doc, built, updated, inner, nextId, call, fsDirs, fsFiles, repoImages>>

---------------------------------------------------------------------------
(* Bounds *)

\* The longest list of images the source-control client returns.
MaxImages == 2
\* The most path segments of an image path in the path computation.
MaxSegs == 3
\* The longest random extension RawApiKey::generate::<N> is instantiated with.
MaxExt == 2

\* The RenderableRfd instances a behaviour holds.
Docs == {"r1", "r2"}

---------------------------------------------------------------------------
(* Strings *)

Sep == "/"

RECURSIVE TrimStartMatches(_, _)
\* str::trim_start_matches(c): every leading occurrence of c removed.
TrimStartMatches(s, c) ==
    IF s # <<>> /\ Head(s) = c THEN TrimStartMatches(Tail(s), c) ELSE s

\* s starts with p.
StartsWith(s, p) ==
    /\ Len(p) <= Len(s)
    /\ SubSeq(s, 1, Len(p)) = p

RECURSIVE Replace(_, _, _)
\* str::replace(pat, to): every non-overlapping match of pat, left to
\* right, replaced by to.  The empty pattern matches at every character
\* boundary.
Replace(s, pat, to) ==
    IF pat = <<>>
    THEN IF s = <<>> THEN to
         ELSE to \o <<Head(s)>> \o Replace(Tail(s), pat, to)
    ELSE IF s = <<>> THEN <<>>
    ELSE IF StartsWith(s, pat)
         THEN to \o Replace(SubSeq(s, Len(pat) + 1, Len(s)), pat, to)
         ELSE <<Head(s)>> \o Replace(Tail(s), pat, to)

\* The path of an image inside the workspace: image.path with the
\* document directory replaced by "" and leading separators trimmed.
ImageRelPath(dir, path) ==
    TrimStartMatches(Replace(path, TrimStartMatches(dir, Sep), <<>>), Sep)

RECURSIVE Join(_)
\* Segments joined by single separators.
Join(segs) ==
    IF segs = <<>> THEN <<>>
    ELSE IF Len(segs) = 1 THEN Head(segs)
    ELSE Head(segs) \o <<Sep>> \o Join(Tail(segs))

---------------------------------------------------------------------------
(* Content: the text of a document and its attributes *)

\* A text is a sequence of lines; a line is <<key, value>>.
TextFull == << <<"title", "RFD">>, <<"state", "draft">>,
               <<"discussion", "none">>, <<"labels", "a">>, <<"body", "text">> >>
TextBare == << <<"body", "text">> >>
Texts == {TextFull, TextBare}

StateValues == {"published"}
DiscussionValues == {"url"}
LabelValues == {"b"}

HasLine(text, key) == \E i \in 1..Len(text) : text[i][1] = key
LineOf(text, key) == CHOOSE i \in 1..Len(text) :
    /\ text[i][1] = key
    /\ \A j \in 1..(i - 1) : text[j][1] # key

\* RfdAsciidoc / RfdMarkdown attribute update: the attribute's line is
\* rewritten; a text without the attribute gets the line after its title; a
\* text with neither is left as it is.
SetAttr(text, key, value) ==
    IF HasLine(text, key)
    THEN [text EXCEPT ![LineOf(text, key)] = <<key, value>>]
    ELSE IF HasLine(text, "title")
    THEN SubSeq(text, 1, LineOf(text, "title")) \o << <<key, value>> >>
         \o SubSeq(text, LineOf(text, "title") + 1, Len(text))
    ELSE text

\* RfdAsciidoc::new / RfdMarkdown::new: the parsed wrapper holds the text it
\* was given (source) and the text its attribute updates produce (content).
RfdAsciidocNew(text) == [source |-> text, content |-> text]
RfdMarkdownNew(text) == [source |-> text, content |-> text]

\* RfdAsciidoc::raw / RfdMarkdown::raw: the original unparsed source.
InnerRaw(parsed) == parsed.source

NoContent == [variant |-> "None", parsed |-> [source |-> <<>>, content |-> <<>>]]
NoDoc == [live |-> FALSE, content |-> NoContent, render_id |-> 0]
NoBuilt == [fmt |-> "None", text |-> <<>>, id |-> 0]

\* RenderableRfd::new_asciidoc with render_id = Uuid::new_v4().
new_asciidoc(text, id) ==
    [live |-> TRUE,
     content |-> [variant |-> "RfdContent::Asciidoc", parsed |-> RfdAsciidocNew(text)],
     render_id |-> id]

\* RenderableRfd::new_markdown with render_id = Uuid::new_v4().
new_markdown(text, id) ==
    [live |-> TRUE,
     content |-> [variant |-> "RfdContent::Markdown", parsed |-> RfdMarkdownNew(text)],
     render_id |-> id]

\* RenderableRfd::format.
format(r) ==
    CASE r.content.variant = "RfdContent::Asciidoc" -> "ContentFormat::Asciidoc"
      [] r.content.variant = "RfdContent::Markdown" -> "ContentFormat::Markdown"
      [] OTHER -> "None"

\* RenderableRfd::raw.
raw(r) ==
    CASE r.content.variant = "RfdContent::Asciidoc" -> InnerRaw(r.content.parsed)
      [] r.content.variant = "RfdContent::Markdown" -> InnerRaw(r.content.parsed)
      [] OTHER -> <<>>

\* An into_inner_content that drops the first line of a Markdown text.
into_inner_content_tail(r) ==
    CASE r.content.variant = "RfdContent::Asciidoc" -> r.content.parsed.content
      [] r.content.variant = "RfdContent::Markdown" ->
            IF r.content.parsed.content = <<>> THEN <<>>
            ELSE Tail(r.content.parsed.content)
      [] OTHER -> <<>>

\* RenderableRfd::into_inner_content.
into_inner_content(r) ==
    CASE r.content.variant = "RfdContent::Asciidoc" -> r.content.parsed.content
      [] r.content.variant = "RfdContent::Markdown" -> r.content.parsed.content
      [] OTHER -> <<>>

\* An update that rewraps the updated text as Asciidoc whatever it was.
update_attr_rewrap(r, key, value) ==
    [r EXCEPT !.content.variant = "RfdContent::Asciidoc",
              !.content.parsed.content = SetAttr(@, key, value)]

\* The update_* methods of impl RfdAttributes for RenderableRfd: the update
\* is applied inside the variant the instance already holds.
update_attr(r, key, value) ==
    CASE r.content.variant = "RfdContent::Asciidoc" ->
            [r EXCEPT !.content.parsed.content = SetAttr(@, key, value)]
      [] r.content.variant = "RfdContent::Markdown" ->
            [r EXCEPT !.content.parsed.content = SetAttr(@, key, value)]
      [] OTHER -> r

update_state(r, value) == update_attr(r, "state", value)
update_discussion(r, value) == update_attr(r, "discussion", value)
update_labels(r, value) == update_attr(r, "labels", value)

---------------------------------------------------------------------------
(* The environment of a render: repository images, base64, the file system *)

\* RfdNumber values to_pdf is called with.
Numbers == {7}

DigitChar(n) == CASE n = 7 -> "7" [] n = 8 -> "8" [] OTHER -> "0"

\* RfdNumber::repo_path: the document's directory in the repository.
RepoPath(n) == <<Sep, DigitChar(n), Sep>>

\* Image descriptors: repository path and base64 content.
ImgA == [path |-> <<"/", "7", "/", "a">>, content |-> "aGk="]
ImgB == [path |-> <<"7", "/", "i", "/", "b">>, content |-> "eW8="]
ImgBad == [path |-> <<"/", "7", "/", "c">>, content |-> "a!k="]
ImagePool == {ImgA, ImgB, ImgBad}

\* The lists the client may return: every list of at most MaxImages images.
ImageLists == UNION {[1..n -> ImagePool] : n \in 0..MaxImages}

\* util::decode_base64: the decoded bytes, or a DecodeError.
DecodeBase64(content) ==
    CASE content = "aGk=" -> [ok |-> TRUE, bytes |-> "hi"]
      [] content = "eW8=" -> [ok |-> TRUE, bytes |-> "yo"]
      [] OTHER -> [ok |-> FALSE, bytes |-> ""]

\* A path that names the workspace directory itself or collides with the
\* directory structure already in the workspace cannot be written as a file.
IsDirOf(p, q) == Len(p) < Len(q) /\ StartsWith(q, p \o <<Sep>>)
Writable(files, ws, rel) ==
    /\ rel # <<>>
    /\ rel[Len(rel)] # Sep
    /\ \A f \in files : f.ws = ws => ~IsDirOf(f.rel, rel) /\ ~IsDirOf(rel, f.rel)

\* util::write_file succeeding: parent directories created, the file holds
\* the bytes (an existing file at the path is overwritten).
WriteFile(files, ws, rel, bytes) ==
    {f \in files : ~(f.ws = ws /\ f.rel = rel)}
        \cup {[ws |-> ws, rel |-> rel, data |-> bytes]}

\* std::fs::remove_dir_all succeeding: the directory and all under it gone.
RemoveDirAll(files, ws) == {f \in files : f.ws # ws}

\* RenderedPdf::render succeeding: the bytes of the converted document.
RenderOutput(text) == << <<"pdf", "1.4">> >> \o text

---------------------------------------------------------------------------
(* The to_pdf call *)

NoPdf == [contents |-> <<>>, number |-> 0]
NoErr == <<"", "">>
NoResult == [ok |-> FALSE, stage |-> "none", err |-> NoErr, pdf |-> NoPdf]
NoCall == [pc |-> "idle", number |-> 0, images |-> <<>>, idx |-> 0,
           rendered |-> <<>>, log |-> <<>>, result |-> NoResult]

\* Err(e), returned from the step `stage` of to_pdf.
ErrResult(stage, err) == [ok |-> FALSE, stage |-> stage, err |-> err, pdf |-> NoPdf]
\* Ok(RfdPdf { contents, number }).
OkResult(contents, number) ==
    [ok |-> TRUE, stage |-> "return", err |-> NoErr,
     pdf |-> [contents |-> contents, number |-> number]]

\* RfdOutputError::ContentFailure(#[from] RfdContentError).
ContentFailure(kind) == <<"ContentFailure", kind>>
FormatNotSupported == <<"FormatNotSupported", "">>
Command == <<"Command", "">>

\* RenderableRfd::tmp_path: <temp root>/rfd-render/<render_id>.
TmpPathOf(r) == <<"tmp", "rfd-render", r.render_id>>
\* The workspace a path names, as the file system keys it.
Ws(r) == TmpPathOf(r)[3]

InFlight(d) == call[d].pc \notin {"idle", "done"}

Logged(c, op, arg) == [c EXCEPT !.log = Append(@, <<op, arg>>)]

\* A to_pdf that cleans the workspace up on its way out with an error.
FailWithCleanup(d, c, stage, err, dirs, files) ==
    /\ call' = [call EXCEPT ![d] = [c EXCEPT !.pc = "done",
                                             !.result = ErrResult(stage, err)]]
    /\ fsDirs' = dirs \ {Ws(doc[d])}
    /\ fsFiles' = RemoveDirAll(files, Ws(doc[d]))

\* The `?` of to_pdf: the call returns Err(err); the file system stays as
\* the failing step left it (dirs, files).
Fail(d, c, stage, err, dirs, files) ==
    /\ call' = [call EXCEPT ![d] = [c EXCEPT !.pc = "done",
                                             !.result = ErrResult(stage, err)]]
    /\ fsDirs' = dirs
    /\ fsFiles' = files

\* A to_pdf that takes the Asciidoc arm for every variant.
ToPdfDispatchAnyVariant(r, number) ==
    [NoCall EXCEPT !.pc = "download_images", !.number = number]

\* to_pdf entered: the match on the content variant.  Markdown returns
\* Err(FormatNotSupported) at once; Asciidoc goes on to download_images.
ToPdfDispatch(r, number) ==
    IF r.content.variant = "RfdContent::Asciidoc"
    THEN [NoCall EXCEPT !.pc = "download_images", !.number = number]
    ELSE [NoCall EXCEPT !.pc = "done", !.number = number,
                        !.result = ErrResult("match", FormatNotSupported)]

ToPdf(d) ==
    /\ doc[d].live
    /\ ~InFlight(d)
    /\ \E number \in Numbers :
          call' = [call EXCEPT ![d] = ToPdfDispatch(doc[d], number)]
    /\ UNCHANGED <<doc, built, updated, inner, nextId, fsDirs, fsFiles, repoImages, strip, ak>>

\* std::fs::create_dir_all on the workspace path, succeeding: the directory
\* and its parents exist afterwards, whether or not they did before.
CreateDirAll(dirs, ws) == dirs \cup {ws}

\* A tmp_path that creates the directory with create_dir: an existing
\* directory is an error.
tmp_path_create_dir(r, dirs) ==
    IF Ws(r) \in dirs
    THEN {[ok |-> FALSE, path |-> <<>>, dirs |-> dirs, cause |-> "AlreadyExists"]}
    ELSE {[ok |-> TRUE, path |-> TmpPathOf(r), dirs |-> CreateDirAll(dirs, Ws(r)),
           cause |-> ""],
          [ok |-> FALSE, path |-> <<>>, dirs |-> dirs, cause |-> "env"]}

\* RenderableRfd::tmp_path, as the set of its possible outcomes on a file
\* system with the directories dirs: Ok(path) with the directory created, or
\* the io::Error of create_dir_all (a failure of the environment).
tmp_path(r, dirs) ==
    {[ok |-> TRUE, path |-> TmpPathOf(r), dirs |-> CreateDirAll(dirs, Ws(r)),
      cause |-> ""],
     [ok |-> FALSE, path |-> <<>>, dirs |-> dirs, cause |-> "env"]}

\* The span field storage_path = ?self.tmp_path() of #[instrument]: when
\* the span is recorded, tmp_path runs once more and its result is only
\* printed.
Instrumented(r, dirs) == {dirs} \cup {o.dirs : o \in tmp_path(r, dirs)}

\* download_images entered: the span's storage_path field may evaluate
\* tmp_path (creating the directory), then line 158 evaluates tmp_path.
DownloadImagesTmpPath(d) ==
    /\ call[d].pc = "download_images"
    /\ \E seen \in Instrumented(doc[d], fsDirs) :
       \E o \in tmp_path(doc[d], seen) :
          IF o.ok
          THEN /\ call' = [call EXCEPT ![d] =
                      [Logged(call[d], "tmp_path", o.path[3]) EXCEPT !.pc = "get_images"]]
               /\ fsDirs' = o.dirs
               /\ fsFiles' = fsFiles
          ELSE Fail(d, Logged(call[d], "tmp_path_failed", 0), "tmp_path",
                    ContentFailure("Io"), o.dirs, fsFiles)
    /\ UNCHANGED <<doc, built, updated, inner, nextId, repoImages, strip, ak>>

\* location.get_images(client, number).await?
GetImages(d) ==
    /\ call[d].pc = "get_images"
    /\ LET c == Logged(call[d], "get_images", 0)
       IN  \/ /\ call' = [call EXCEPT ![d] =
                     [c EXCEPT !.images = repoImages, !.idx = 1,
                               !.pc = IF repoImages = <<>> THEN "render_tmp" ELSE "stage"]]
              /\ UNCHANGED <<fsDirs, fsFiles>>
           \/ Fail(d, c, "list", ContentFailure("GitHub"), fsDirs, fsFiles)
    /\ UNCHANGED <<doc, built, updated, inner, nextId, repoImages, strip, ak>>

\* A loop that skips an image it cannot decode and goes on to the next.
DecodeSkipped(d, c) ==
    /\ call' = [call EXCEPT ![d] =
           [c EXCEPT !.idx = c.idx + 1,
                     !.pc = IF c.idx = Len(c.images) THEN "render_tmp" ELSE "stage"]]
    /\ UNCHANGED <<fsDirs, fsFiles>>

\* decode_base64(&image.content)? failing: download_images returns
\* Err(Decode) before write_file is called for the image.
DecodeFailed(d, c) ==
    Fail(d, c, "decode", ContentFailure("Decode"), fsDirs, fsFiles)

\* util::write_file failing: nothing written, or the file left truncated.
WriteFailedFiles(files, ws, rel) ==
    {files} \cup (IF Writable(files, ws, rel) THEN {WriteFile(files, ws, rel, "")} ELSE {})

\* One turn of the loop over images: the destination path, decode_base64?,
\* write_file(..).await?
StageImage(d) ==
    /\ call[d].pc = "stage"
    /\ LET c == call[d]
           image == c.images[c.idx]
           ws == Ws(doc[d])
           rel == ImageRelPath(RepoPath(c.number), image.path)
           decoded == DecodeBase64(image.content)
           last == c.idx = Len(c.images)
       IN  IF ~decoded.ok
           THEN DecodeFailed(d, c)
           ELSE \/ /\ Writable(fsFiles, ws, rel)
                   /\ call' = [call EXCEPT ![d] =
                          [Logged(c, "write_file", c.idx) EXCEPT
                              !.idx = c.idx + 1,
                              !.pc = IF last THEN "render_tmp" ELSE "stage"]]
                   /\ fsDirs' = CreateDirAll(fsDirs, ws)
                   /\ fsFiles' = WriteFile(fsFiles, ws, rel, decoded.bytes)
                \/ \E files \in WriteFailedFiles(fsFiles, ws, rel) :
                      Fail(d, Logged(c, "write_failed", c.idx), "write",
                           ContentFailure("File"),
                           IF files = fsFiles THEN fsDirs ELSE CreateDirAll(fsDirs, ws),
                           files)
    /\ UNCHANGED <<doc, built, updated, inner, nextId, repoImages, strip, ak>>

\* RenderedPdf::render(adoc, self.tmp_path()?): the argument is evaluated,
\* then the conversion is started.
RenderTmpPath(d) ==
    /\ call[d].pc = "render_tmp"
    /\ \E o \in tmp_path(doc[d], fsDirs) :
          IF o.ok
          THEN /\ call' = [call EXCEPT ![d] =
                      [Logged(Logged(call[d], "tmp_path", o.path[3]), "render", o.path[3])
                          EXCEPT !.pc = "render"]]
               /\ fsDirs' = o.dirs
               /\ fsFiles' = fsFiles
          ELSE Fail(d, Logged(call[d], "tmp_path_failed", 0), "render_tmp",
                    ContentFailure("Io"), o.dirs, fsFiles)
    /\ UNCHANGED <<doc, built, updated, inner, nextId, repoImages, strip, ak>>

\* .await? on the conversion: its bytes, or its error.
Render(d) ==
    /\ call[d].pc = "render"
    /\ LET c == Logged(call[d], "rendered", 0)
       IN  \/ /\ call' = [call EXCEPT ![d] =
                     [c EXCEPT !.pc = "cleanup",
                               !.rendered = RenderOutput(doc[d].content.parsed.content)]]
              /\ UNCHANGED <<fsDirs, fsFiles>>
           \/ Fail(d, c, "render", Command, fsDirs, fsFiles)
    /\ UNCHANGED <<doc, built, updated, inner, nextId, repoImages, strip, ak>>

\* What to_pdf returns when cleanup_tmp_path returned Err(e).
CleanupFailed(d, c, dirs, files) ==
    Fail(d, c, "cleanup", ContentFailure("Io"), dirs, files)

\* A cleanup whose existence test is inverted: the directory tmp_path has
\* just created is left in place and Ok is returned.
CleanupTmpPathKeepsDir(d) ==
    /\ call[d].pc = "cleanup"
    /\ LET c0 == Logged(call[d], "cleanup_tmp_path", 0)
       IN  \E seen \in Instrumented(doc[d], fsDirs) :
           \E o \in tmp_path(doc[d], seen) :
              IF ~o.ok
              THEN Fail(d, Logged(c0, "tmp_path_failed", 0), "cleanup_tmp",
                        ContentFailure("Io"), o.dirs, fsFiles)
              ELSE LET c == Logged(c0, "tmp_path", o.path[3])
                   IN  /\ call' = [call EXCEPT ![d] =
                              [c EXCEPT !.pc = "done",
                                        !.result = OkResult(c.rendered, c.number)]]
                       /\ fsDirs' = o.dirs
                       /\ fsFiles' = fsFiles
    /\ UNCHANGED <<doc, built, updated, inner, nextId, repoImages, strip, ak>>

\* self.cleanup_tmp_path()? and the Ok(RfdPdf {..}) after it.
\* cleanup_tmp_path: tmp_path()?, then remove_dir_all when the path is a
\* directory; a failed removal is logged (tap_err) and returned.
CleanupTmpPath(d) ==
    /\ call[d].pc = "cleanup"
    /\ LET c0 == Logged(call[d], "cleanup_tmp_path", 0)
           ws == Ws(doc[d])
       IN  \E seen \in Instrumented(doc[d], fsDirs) :
           \E o \in tmp_path(doc[d], seen) :
              IF ~o.ok
              THEN Fail(d, Logged(c0, "tmp_path_failed", 0), "cleanup_tmp",
                        ContentFailure("Io"), o.dirs, fsFiles)
              ELSE LET c == Logged(Logged(c0, "tmp_path", o.path[3]),
                                   "remove_dir_all", o.path[3])
                   IN  \/ /\ call' = [call EXCEPT ![d] =
                                 [c EXCEPT !.pc = "done",
                                           !.result = OkResult(c.rendered, c.number)]]
                          /\ fsDirs' = o.dirs \ {ws}
                          /\ fsFiles' = RemoveDirAll(fsFiles, ws)
                       \/ \E gone \in SUBSET {f \in fsFiles : f.ws = ws} :
                             CleanupFailed(d, Logged(c, "warn", 0), o.dirs, fsFiles \ gone)
    /\ UNCHANGED <<doc, built, updated, inner, nextId, repoImages, strip, ak>>

---------------------------------------------------------------------------
(* Construction, clone, attribute updates, consumption *)

Unused(d) == built[d] = NoBuilt
NoInner == [done |-> FALSE, text |-> <<>>]

NewAsciidoc(d) ==
    /\ Unused(d)
    /\ \E text \in Texts :
          /\ doc' = [doc EXCEPT ![d] = new_asciidoc(text, nextId)]
          /\ built' = [built EXCEPT ![d] =
                [fmt |-> "ContentFormat::Asciidoc", text |-> text, id |-> nextId]]
    /\ nextId' = nextId + 1
    /\ UNCHANGED <<updated, inner, call, fsDirs, fsFiles, repoImages, strip, ak>>

NewMarkdown(d) ==
    /\ Unused(d)
    /\ \E text \in Texts :
          /\ doc' = [doc EXCEPT ![d] = new_markdown(text, nextId)]
          /\ built' = [built EXCEPT ![d] =
                [fmt |-> "ContentFormat::Markdown", text |-> text, id |-> nextId]]
    /\ nextId' = nextId + 1
    /\ UNCHANGED <<updated, inner, call, fsDirs, fsFiles, repoImages, strip, ak>>

\* #[derive(Clone)]: every field copied, render_id included.
clone(r) == r

Clone(d, e) ==
    /\ doc[d].live
    /\ Unused(e)
    /\ doc' = [doc EXCEPT ![e] = clone(doc[d])]
    /\ built' = [built EXCEPT ![e] = built[d]]
    /\ updated' = [updated EXCEPT ![e] = updated[d]]
    /\ UNCHANGED <<inner, nextId, call, fsDirs, fsFiles, repoImages, strip, ak>>

\* &mut self: no to_pdf call borrows the instance while it is updated.
Update(d, r) ==
    /\ doc[d].live
    /\ ~InFlight(d)
    /\ doc' = [doc EXCEPT ![d] = r]
    /\ updated' = [updated EXCEPT ![d] = TRUE]
    /\ UNCHANGED <<built, inner, nextId, call, fsDirs, fsFiles, repoImages, strip, ak>>

UpdateState(d) == \E v \in StateValues : Update(d, update_state(doc[d], v))
UpdateDiscussion(d) == \E v \in DiscussionValues : Update(d, update_discussion(doc[d], v))
UpdateLabels(d) == \E v \in LabelValues : Update(d, update_labels(doc[d], v))

\* into_inner_content(self): the instance is consumed.
IntoInnerContent(d) ==
    /\ doc[d].live
    /\ ~InFlight(d)
    /\ inner' = [inner EXCEPT ![d] = [done |-> TRUE, text |-> into_inner_content(doc[d])]]
    /\ doc' = [doc EXCEPT ![d] = NoDoc]
    /\ UNCHANGED <<built, updated, nextId, call, fsDirs, fsFiles, repoImages, strip, ak>>

---------------------------------------------------------------------------
(* Specifications of the render *)

NoStrip == [done |-> FALSE, dir |-> <<>>, path |-> <<>>, rel |-> <<>>]
NoParsed == [ok |-> FALSE, err |-> "", clear |-> <<>>]
NoVerified == [ok |-> FALSE, value |-> FALSE, err |-> ""]
NoKey == [pc |-> "start", id |-> <<>>, token_raw |-> <<>>, raw |-> [clear |-> <<>>],
          key |-> <<>>, signature |-> <<>>, raw2 |-> NoParsed, verified |-> NoVerified]

InitRender ==
    /\ doc = [d \in Docs |-> NoDoc]
    /\ built = [d \in Docs |-> NoBuilt]
    /\ updated = [d \in Docs |-> FALSE]
    /\ inner = [d \in Docs |-> NoInner]
    /\ nextId = 1
    /\ call = [d \in Docs |-> NoCall]
    /\ fsDirs = {}
    /\ fsFiles = {}
    /\ strip = NoStrip
    /\ ak = NoKey

RenderStep ==
    \/ \E d \in Docs : ToPdf(d)
    \/ \E d \in Docs : DownloadImagesTmpPath(d)
    \/ \E d \in Docs : GetImages(d)
    \/ \E d \in Docs : StageImage(d)
    \/ \E d \in Docs : RenderTmpPath(d)
    \/ \E d \in Docs : Render(d)
    \/ \E d \in Docs : CleanupTmpPath(d)

\* Renders of independently constructed documents, each with the render_id
\* its constructor drew.
Init ==
    /\ InitRender
    /\ repoImages \in ImageLists

Next ==
    \/ \E d \in Docs : NewAsciidoc(d)
    \/ \E d \in Docs : NewMarkdown(d)
    \/ RenderStep

Spec == Init /\ [][Next]_vars

\* The whole public API: clones, attribute updates and consumption too, on
\* a location that holds one image.
InitApi ==
    /\ InitRender
    /\ repoImages = <<ImgA>>

NextApi ==
    \/ \E d \in Docs : NewAsciidoc(d)
    \/ \E d \in Docs : NewMarkdown(d)
    \/ \E d, e \in Docs : Clone(d, e)
    \/ \E d \in Docs : UpdateState(d)
    \/ \E d \in Docs : UpdateDiscussion(d)
    \/ \E d \in Docs : UpdateLabels(d)
    \/ \E d \in Docs : IntoInnerContent(d)
    \/ RenderStep

SpecApi == InitApi /\ [][NextApi]_vars

---------------------------------------------------------------------------
(* The destination path of an image, on its own inputs *)

\* Names of path segments.
SegNames == {<<"7">>, <<"i">>, <<"1", "7">>}

\* Document directories: a segment, with or without the separators around it.
DirInputs == {lead \o name \o trail :
                 lead \in {<<>>, <<Sep>>}, name \in SegNames, trail \in {<<>>, <<Sep>>}}

\* Repository paths: one to MaxSegs segments, with or without a leading
\* separator.
PathInputs == {lead \o Join(segs) :
                  lead \in {<<>>, <<Sep>>},
                  segs \in UNION {[1..n -> SegNames] : n \in 1..MaxSegs}}

\* The destination computed for one image of download_images.
ComputeRelPath ==
    /\ ~strip.done
    /\ strip' = [strip EXCEPT !.done = TRUE,
                               !.rel = ImageRelPath(strip.dir, strip.path)]
    /\ UNCHANGED <<renderVars, ak>>


---------------------------------------------------------------------------
(* API keys: generate, sign, parse back, verify *)

\* The bytes of a Uuid, and so of the id part of a key.
IdLen == 16
\* A parsed key must be longer than this many bytes.
MinKeyLen == 16

HexChars == <<"0", "1", "2", "3", "4", "5", "6", "7",
              "8", "9", "a", "b", "c", "d", "e", "f">>
UpperHexChars == <<"0", "1", "2", "3", "4", "5", "6", "7",
                   "8", "9", "A", "B", "C", "D", "E", "F">>

IsHexChar(c) == \E i \in 1..16 : HexChars[i] = c \/ UpperHexChars[i] = c
HexVal(c) == (CHOOSE i \in 1..16 : HexChars[i] = c \/ UpperHexChars[i] = c) - 1

RECURSIVE HexEncode(_)
\* hex::encode: two lower-case digits per byte, high nibble first.
HexEncode(bytes) ==
    IF bytes = <<>> THEN <<>>
    ELSE <<HexChars[(Head(bytes) \div 16) + 1], HexChars[(Head(bytes) % 16) + 1]>>
         \o HexEncode(Tail(bytes))

RECURSIVE HexDecodeDigits(_)
HexDecodeDigits(chars) ==
    IF chars = <<>> THEN <<>>
    ELSE <<HexVal(chars[1]) * 16 + HexVal(chars[2])>>
         \o HexDecodeDigits(SubSeq(chars, 3, Len(chars)))

\* hex::decode: FromHexError on an odd length or a character that is no
\* hex digit.
HexDecode(chars) ==
    IF Len(chars) % 2 # 0 \/ \E i \in 1..Len(chars) : ~IsHexChar(chars[i])
    THEN [ok |-> FALSE, bytes |-> <<>>]
    ELSE [ok |-> TRUE, bytes |-> HexDecodeDigits(chars)]

RECURSIVE SumBytes(_)
SumBytes(bytes) == IF bytes = <<>> THEN 0 ELSE Head(bytes) + SumBytes(Tail(bytes))

\* Signer::sign succeeding: a signature over the message (here a checksum
\* under the signer's key).
SignerSign(message) == <<(SumBytes(message) + 91) % 256, Len(message) % 256>>
\* Signer::verify: Ok(()) exactly for the signature sign gives the message.
SignerVerify(message, signature) == signature = SignerSign(message)

\* RawApiKey::generate::<N>(id): the id's bytes, then N random bytes.
RawApiKeyGenerate(id, token_raw) == [clear |-> id \o token_raw]

\* RawApiKey::id.
RawApiKeyId(key) == SubSeq(key.clear, 1, IdLen)

\* SignedApiKey::new(hex::encode(self.clear), hex::encode(signature)).
RawApiKeySign(key, signature) ==
    [key |-> HexEncode(key.clear), signature |-> HexEncode(signature)]

\* A try_from that asks for one byte more.
RawApiKeyTryFromLonger(value) ==
    LET decoded == HexDecode(value)
    IN  IF ~decoded.ok THEN [ok |-> FALSE, err |-> "Decode", clear |-> <<>>]
        ELSE IF Len(decoded.bytes) > MinKeyLen + 1
        THEN [ok |-> TRUE, err |-> "", clear |-> decoded.bytes]
        ELSE [ok |-> FALSE, err |-> "FailedToParse", clear |-> <<>>]

\* impl TryFrom<&str> for RawApiKey.
RawApiKeyTryFrom(value) ==
    LET decoded == HexDecode(value)
    IN  IF ~decoded.ok THEN [ok |-> FALSE, err |-> "Decode", clear |-> <<>>]
        ELSE IF Len(decoded.bytes) > MinKeyLen
        THEN [ok |-> TRUE, err |-> "", clear |-> decoded.bytes]
        ELSE [ok |-> FALSE, err |-> "FailedToParse", clear |-> <<>>]

\* RawApiKey::verify(signer, signature).
RawApiKeyVerify(key, signature) ==
    LET decoded == HexDecode(signature)
    IN  IF ~decoded.ok THEN [ok |-> FALSE, value |-> FALSE, err |-> "Decode"]
        ELSE IF SignerVerify(key.clear, decoded.bytes)
        THEN [ok |-> TRUE, value |-> TRUE, err |-> ""]
        ELSE [ok |-> FALSE, value |-> FALSE, err |-> "Verify"]

\* The ids and the random bytes tried.
IdInputs == {[i \in 1..IdLen |-> 0], [i \in 1..IdLen |-> (i * 37) % 256],
             [i \in 1..IdLen |-> 255]}
ByteInputs == {0, 10, 171}
TokenInputs == UNION {[1..n -> ByteInputs] : n \in 0..MaxExt}

\* let raw = RawApiKey::generate::<N>(&id)
Generate ==
    /\ ak.pc = "start"
    /\ ak' = [ak EXCEPT !.pc = "generated",
                        !.raw = RawApiKeyGenerate(ak.id, ak.token_raw)]
    /\ UNCHANGED <<renderVars, strip>>

\* raw.sign(signer).await: Ok(SignedApiKey), or Err(Signing) when the signer
\* fails.
Sign ==
    /\ ak.pc = "generated"
    /\ \/ LET signed == RawApiKeySign(ak.raw, SignerSign(ak.raw.clear))
          IN  ak' = [ak EXCEPT !.pc = "signed", !.key = signed.key,
                               !.signature = signed.signature]
       \/ ak' = [ak EXCEPT !.pc = "sign_failed"]
    /\ UNCHANGED <<renderVars, strip>>

\* RawApiKey::try_from(signed.key.as_str())
TryFrom ==
    /\ ak.pc = "signed"
    /\ ak' = [ak EXCEPT !.pc = "parsed", !.raw2 = RawApiKeyTryFrom(ak.key)]
    /\ UNCHANGED <<renderVars, strip>>

\* raw2.verify(signer, signed.signature.as_bytes())
Verify ==
    /\ ak.pc = "parsed"
    /\ ak.raw2.ok
    /\ ak' = [ak EXCEPT !.pc = "verified",
                        !.verified = RawApiKeyVerify([clear |-> ak.raw2.clear], ak.signature)]
    /\ UNCHANGED <<renderVars, strip>>

---------------------------------------------------------------------------
(* Specifications of the pure computations *)

InitPath ==
    /\ doc = [d \in Docs |-> NoDoc]
    /\ built = [d \in Docs |-> NoBuilt]
    /\ updated = [d \in Docs |-> FALSE]
    /\ inner = [d \in Docs |-> NoInner]
    /\ nextId = 1
    /\ call = [d \in Docs |-> NoCall]
    /\ fsDirs = {}
    /\ fsFiles = {}
    /\ repoImages = <<>>
    /\ ak = NoKey
    /\ strip \in [done : {FALSE}, dir : DirInputs, path : PathInputs, rel : {<<>>}]

NextPath == ComputeRelPath

SpecPath == InitPath /\ [][NextPath]_vars

InitKey ==
    /\ doc = [d \in Docs |-> NoDoc]
    /\ built = [d \in Docs |-> NoBuilt]
    /\ updated = [d \in Docs |-> FALSE]
    /\ inner = [d \in Docs |-> NoInner]
    /\ nextId = 1
    /\ call = [d \in Docs |-> NoCall]
    /\ fsDirs = {}
    /\ fsFiles = {}
    /\ repoImages = <<>>
    /\ strip = NoStrip
    /\ \E id \in IdInputs, token_raw \in TokenInputs :
          ak = [NoKey EXCEPT !.id = id, !.token_raw = token_raw]

NextKey ==
    \/ Generate
    \/ Sign
    \/ TryFrom
    \/ Verify

SpecKey == InitKey /\ [][NextKey]_vars

---------------------------------------------------------------------------
(* Properties *)

Asciidoc == "ContentFormat::Asciidoc"
Markdown == "ContentFormat::Markdown"

Done(d) == call[d].pc = "done"

\* The I/O operations a call has performed, and the images it has written.
Ops(c) == {c.log[j][1] : j \in 1..Len(c.log)}
WrittenIdx(c) == {c.log[j][2] : j \in {i \in 1..Len(c.log) : c.log[i][1] = "write_file"}}
FailedIdx(c) == {c.log[j][2] : j \in {i \in 1..Len(c.log) : c.log[i][1] = "write_failed"}}

\* Where the i-th listed image of a call is staged.
StagedRel(c, i) == ImageRelPath(RepoPath(c.number), c.images[i].path)
OnDisk(ws, rel) == \E f \in fsFiles : f.ws = ws /\ f.rel = rel
StagedOnDisk(d) ==
    \A i \in WrittenIdx(call[d]) : OnDisk(Ws(doc[d]), StagedRel(call[d], i))

\* C1: to_pdf on an instance built with new_markdown returns
\* Err(FormatNotSupported) and performs no I/O: the call never has a step in
\* flight, its log of client, directory, file, conversion and cleanup
\* operations is empty, and its workspace directory is never created.
MarkdownToPdfNoIo ==
    \A d \in Docs :
        (doc[d].live /\ built[d].fmt = Markdown) =>
            /\ ~InFlight(d)
            /\ Done(d) =>
                  /\ call[d].result = ErrResult("match", FormatNotSupported)
                  /\ call[d].log = <<>>
            /\ Ws(doc[d]) \notin fsDirs
            /\ \A f \in fsFiles : f.ws # Ws(doc[d])

\* A Markdown instance whose to_pdf has returned, while another render has
\* touched the file system.
MarkdownToPdfReturned ==
    \E d \in Docs :
        /\ built[d].fmt = Markdown
        /\ Done(d)
        /\ fsDirs # {}

\* What a workspace holds: whether its directory exists, and its files.
WorkspaceOf(dirs, files, ws) == <<ws \in dirs, {f \in files : f.ws = ws}>>
\* Two calls in flight have different workspace paths.
DistinctWorkspaces ==
    \A d, e \in Docs :
        (d # e /\ InFlight(d) /\ InFlight(e)) => TmpPathOf(doc[d]) # TmpPathOf(doc[e])
\* A step that is not a step of the call on d leaves the workspace of d, in
\* flight, as it is.
NoInterference ==
    \A d \in Docs :
        (InFlight(d) /\ call'[d] = call[d]) =>
            WorkspaceOf(fsDirs', fsFiles', Ws(doc[d])) = WorkspaceOf(fsDirs, fsFiles, Ws(doc[d]))

\* C2: two to_pdf calls in flight at once work in different workspace
\* directories, and no step of one render creates, overwrites or removes
\* anything in the workspace of another render that is in flight.
ConcurrentRendersIsolated == []DistinctWorkspaces /\ [][NoInterference]_vars

\* C3: when staging and conversion succeeded and the removal of the
\* workspace failed (the failure logged), to_pdf returns Ok with the PDF.
CleanupFailureSwallowed ==
    \A d \in Docs :
        (Done(d) /\ call[d].rendered # <<>> /\ "warn" \in Ops(call[d])) =>
            /\ call[d].result.ok
            /\ call[d].result.pdf.contents = call[d].rendered

\* to_pdf returned an error of listing, decoding, writing or conversion.
StagingOrRenderError(d) ==
    /\ Done(d)
    /\ ~call[d].result.ok
    /\ call[d].result.stage \in {"list", "decode", "write", "render"}

\* C4: a to_pdf that returned an error of listing, decoding, writing or
\* conversion ran no cleanup_tmp_path, and its workspace directory and every
\* file it staged exist.
FailureSkipsCleanup ==
    \A d \in Docs :
        StagingOrRenderError(d) =>
            /\ Ops(call[d]) \cap {"cleanup_tmp_path", "remove_dir_all"} = {}
            /\ Ws(doc[d]) \in fsDirs
            /\ StagedOnDisk(d)

\* A render that failed after it had staged an image, and one whose
\* conversion failed.
FailedAfterStaging ==
    \E d \in Docs :
        /\ StagingOrRenderError(d)
        /\ WrittenIdx(call[d]) # {}
        /\ call[d].result.stage \in {"decode", "render"}

\* The position of the first malformed image of a list (0: none).
FirstBad(images) ==
    IF \E i \in 1..Len(images) : ~DecodeBase64(images[i].content).ok
    THEN CHOOSE i \in 1..Len(images) :
            /\ ~DecodeBase64(images[i].content).ok
            /\ \A j \in 1..(i - 1) : DecodeBase64(images[j].content).ok
    ELSE 0
\* A returned call that had listed images with a malformed one among them.
Listed(d) == Done(d) /\ call[d].idx >= 1 /\ FirstBad(call[d].images) > 0

\* C5 as stated: for a list whose k-th image is the first malformed one,
\* exactly the images before k are written and stay on disk and the call
\* returns ContentFailure(Decode).
DecodeFailureAlwaysSurfaces ==
    \A d \in Docs :
        Listed(d) =>
            /\ WrittenIdx(call[d]) = 1..(FirstBad(call[d].images) - 1)
            /\ StagedOnDisk(d)
            /\ call[d].result = ErrResult("decode", ContentFailure("Decode"))

\* C5, amended: the k-th and later images are never written and what was
\* written stays on disk; when no write of an earlier image failed, exactly
\* the images before k were written and the call returns
\* ContentFailure(Decode); when one failed, the call stopped there with
\* ContentFailure(File).
DecodeFailureSurfaces ==
    \A d \in Docs :
        Listed(d) =>
            LET k == FirstBad(call[d].images)
                c == call[d]
            IN  /\ WrittenIdx(c) \cup FailedIdx(c) \subseteq 1..(k - 1)
                /\ StagedOnDisk(d)
                /\ ~c.result.ok
                /\ FailedIdx(c) = {} =>
                      /\ WrittenIdx(c) = 1..(k - 1)
                      /\ c.result = ErrResult("decode", ContentFailure("Decode"))
                /\ FailedIdx(c) # {} =>
                      /\ WrittenIdx(c) = 1..(Cardinality(WrittenIdx(c)))
                      /\ FailedIdx(c) = {Cardinality(WrittenIdx(c)) + 1}
                      /\ c.result = ErrResult("write", ContentFailure("File"))

\* A call that wrote an image, then met the malformed one, with a later
\* image behind it or not.
DecodeFailedAfterWrite ==
    \E d \in Docs :
        /\ Listed(d)
        /\ FirstBad(call[d].images) = 2
        /\ WrittenIdx(call[d]) = {1}
        /\ call[d].result.stage = "decode"

\* The directory prefix of dir, the paths under it, and such a path with
\* only that leading prefix removed.
TrimEndSep(x) == IF x # <<>> /\ x[Len(x)] = Sep THEN SubSeq(x, 1, Len(x) - 1) ELSE x
DirPrefix(dir) == TrimEndSep(TrimStartMatches(dir, Sep)) \o <<Sep>>
LiesUnder(dir, path) == StartsWith(TrimStartMatches(path, Sep), DirPrefix(dir))
WithoutDirPrefix(dir, path) ==
    LET p == TrimStartMatches(path, Sep)
    IN  TrimStartMatches(SubSeq(p, Len(DirPrefix(dir)) + 1, Len(p)), Sep)

\* C6: the destination of an image that lies under the document directory
\* is its path with the leading directory prefix removed, and nothing else,
\* whatever leading separators the directory and the path carry.
StripsOnlyLeadingPrefix ==
    (strip.done /\ LiesUnder(strip.dir, strip.path)) =>
        strip.rel = WithoutDirPrefix(strip.dir, strip.path)

\* C7: for a live instance, in every state the render reaches, tmp_path
\* can succeed; when it does it returns <tmp>/rfd-render/<render_id> with
\* the render_id of construction and the directory exists; it never fails
\* on the directory being there already; every path a call was given is
\* that same path.
TmpPathIdempotent ==
    \A d \in Docs :
        doc[d].live =>
            LET outs == tmp_path(doc[d], fsDirs)
                path == <<"tmp", "rfd-render", built[d].id>>
            IN  /\ \E o \in outs : o.ok
                /\ \A o \in outs :
                      /\ o.ok => o.path = path /\ path[3] \in o.dirs
                      /\ ~o.ok => o.cause # "AlreadyExists"
                /\ \A j \in 1..Len(call[d].log) :
                      call[d].log[j][1] \in {"tmp_path", "render", "remove_dir_all"}
                          => call[d].log[j][2] = path[3]

TmpPathCalls(c) == Cardinality({j \in 1..Len(c.log) : c.log[j][1] = "tmp_path"})

\* tmp_path called again on a directory that exists and holds staged
\* files, and called after a cleanup removed the directory.
TmpPathCalledAgain ==
    \E d, e \in Docs :
        /\ call[d].pc = "render"
        /\ TmpPathCalls(call[d]) = 2
        /\ WrittenIdx(call[d]) # {}
        /\ Done(e) /\ call[e].result.ok

\* C8: format() of a live instance is the format it was constructed with.
FormatFixed ==
    \A d \in Docs :
        /\ doc[d].live => format(doc[d]) = built[d].fmt
        /\ built[d].fmt \in {"None", Asciidoc, Markdown}

\* A Markdown instance that was cloned, updated and given to to_pdf.
FormatAfterUse ==
    \E d, e \in Docs :
        /\ d # e
        /\ doc[d].live /\ doc[e].live
        /\ doc[d].render_id = doc[e].render_id
        /\ built[d].fmt = Markdown
        /\ updated[d]
        /\ raw(doc[d]) # into_inner_content(doc[d])
        /\ Done(d)
        /\ built[e].fmt = Markdown

\* C9: without an update since construction, into_inner_content returned
\* the text the instance was constructed from, and raw() is that text.
RoundTrip ==
    \A d \in Docs :
        ~updated[d] =>
            /\ inner[d].done => inner[d].text = built[d].text
            /\ doc[d].live => raw(doc[d]) = built[d].text

\* Instances of both dialects consumed without an update.
RoundTripDone ==
    \E d, e \in Docs :
        /\ inner[d].done /\ ~updated[d] /\ built[d].fmt = Markdown
        /\ inner[d].text = TextFull
        /\ inner[e].done /\ ~updated[e] /\ built[e].fmt = Asciidoc

\* C10 as stated: for every extension length, the signed key parses back,
\* with the id it was generated from, and verifies.
KeyRoundTripsAnyLength ==
    /\ ak.pc \in {"parsed", "verified"} =>
          /\ ak.raw2.ok
          /\ RawApiKeyId([clear |-> ak.raw2.clear]) = ak.id
    /\ ak.pc = "verified" => ak.verified = [ok |-> TRUE, value |-> TRUE, err |-> ""]

\* C10, amended: the same for every extension length of at least one byte.
KeyRoundTrips ==
    Len(ak.token_raw) >= 1 =>
        /\ ak.pc \in {"parsed", "verified"} =>
              /\ ak.raw2.ok
              /\ ak.raw2.err # "FailedToParse"
              /\ RawApiKeyId([clear |-> ak.raw2.clear]) = ak.id
              /\ ak.raw2.clear = ak.raw.clear
        /\ ak.pc = "parsed" => ENABLED Verify
        /\ ak.pc = "verified" => ak.verified = [ok |-> TRUE, value |-> TRUE, err |-> ""]

\* A key with a one-byte extension, signed, parsed back and verified.
KeyVerified ==
    /\ ak.pc = "verified"
    /\ Len(ak.token_raw) = 1
    /\ ak.verified.value

---------------------------------------------------------------------------
(* Order of the steps of a successful to_pdf *)

\* The I/O a to_pdf performs when nothing fails, for a listing of n images
\* and the workspace named id: the listing, one write per image in list
\* order, one conversion on the workspace, then the cleanup.
SuccessLog(n, id) ==
    << <<"tmp_path", id>>, <<"get_images", 0>> >>
    \o [i \in 1..n |-> <<"write_file", i>>]
    \o << <<"tmp_path", id>>, <<"render", id>>, <<"rendered", 0>>,
          <<"cleanup_tmp_path", 0>>, <<"tmp_path", id>>, <<"remove_dir_all", id>> >>

IsPrefix(s, t) == Len(s) <= Len(t) /\ \A j \in 1..Len(s) : s[j] = t[j]

\* Positions in a call's log at which an operation was performed.
At(c, op) == {j \in 1..Len(c.log) : c.log[j][1] = op}

\* What the log of a call says about the order of its steps, in any state;
\* built[d].id is the render_id the instance was constructed with.
StepsInOrder ==
    \A d \in Docs :
        LET c == call[d] IN
        /\ (Done(d) /\ c.result.ok) =>
              /\ c.images = repoImages
              /\ c.log = SuccessLog(Len(c.images), built[d].id)
              /\ c.result.pdf = [contents |-> c.rendered, number |-> c.number]
        /\ \A r \in At(c, "render") :
              /\ {c.log[j][2] : j \in {i \in 1..(r - 1) : c.log[i][1] = "write_file"}}
                    = 1..Len(c.images)
              /\ At(c, "write_file") \subseteq 1..(r - 1)
              /\ At(c, "render") = {r}
              /\ c.log[r][2] = built[d].id
        /\ \A k \in At(c, "cleanup_tmp_path") :
              /\ \E r \in At(c, "rendered") : r < k
              /\ At(c, "render") \cup At(c, "rendered") \subseteq 1..(k - 1)
              /\ c.rendered # <<>>
        /\ (c.pc \in {"render", "cleanup"}) =>
              IsPrefix(c.log, SuccessLog(Len(c.images), built[d].id))

\* The step on which to_pdf returns Ok: an Asciidoc document, its converted
\* bytes, and no workspace directory or staged file left behind.
ReturnsOk ==
    \A d \in Docs :
        (~Done(d) /\ call'[d].pc = "done" /\ call'[d].result.ok) =>
            /\ format(doc[d]) = Asciidoc
            /\ call[d].pc = "cleanup"
            /\ call'[d].result.pdf.contents = RenderOutput(doc[d].content.parsed.content)
            /\ Ws(doc[d]) \notin fsDirs'
            /\ \A f \in fsFiles' : f.ws # Ws(doc[d])

\* C11: a to_pdf that returns Ok has listed the images, written each of them
\* once in list order, then invoked the conversion once on the workspace and
\* seen it complete, then run cleanup_tmp_path, and returns the converted
\* bytes at a moment when the workspace directory and its files are gone; in
\* every state, a conversion that has started has every listed image written
\* before it, and a cleanup that has started has the completed conversion
\* before it.
SuccessfulRenderOrder == []StepsInOrder /\ [][ReturnsOk]_vars

\* A to_pdf that staged two images, converted, cleaned up and returned Ok.
RenderedInOrder ==
    \E d \in Docs :
        /\ Done(d)
        /\ call[d].result.ok
        /\ Len(call[d].images) = 2
        /\ WrittenIdx(call[d]) = {1, 2}
        /\ call[d].images[1] # call[d].images[2]

====
